---- MODULE Spec2Model ----
(***************************************************************************)
(* Tenant isolation layer of core/managers.py and core/middleware.py:      *)
(* the thread-local current tenant, TenantQuerySet, TenantManager,         *)
(* TenantModelMixin and TenantMiddleware, over one tenant-scoped table     *)
(* (core_project).                                                         *)
(***************************************************************************)
EXTENDS Integers, FiniteSets, Sequences, TLC

\* ------------------------------------------------------------------ values

Tenants == {"t1", "t2"}
Names == {"a", "b"}
Threads == {"w1", "w2", "w3"}
\* the worker threads that serve requests
Workers == {"w1", "w2"}
\* the thread of a script or test (tests.py, demo_tenant_operations.py)
Main == "w1"

\* Python's None, and a thread-local object without the attribute 'tenant'
None == "None"
NoAttr == "noattr"
\* a keyword argument that is not passed
Absent == "-"
NoId == 0

\* rows ever inserted into core_project (primary keys 1..MaxId)
MaxId == 2

\* core_task gets at most this many rows over a run
MaxTaskId == 2

Ids == 1..MaxId

VARIABLES
    thread_locals,  \* _thread_locals.tenant of every thread
    db,             \* the rows of core_project: records [id, tenant, name]
    nextId,         \* the next primary key of core_project
    qs,             \* the queryset the caller holds, or None
    obj,            \* the model instance the caller holds, or None
    res,            \* what the last data operation did and returned
    own,            \* per thread: the tenant that thread last set (None after clear)
    seen,           \* per thread: what its last get_current_tenant() returned
    pc,             \* per worker thread: where its request is
    req,            \* per worker thread: the request being handled
    clears,         \* per worker thread: clear_current_tenant() calls in this request
    tasks,          \* the rows of core_task: records [id, tenant, name, project]
    nextTaskId      \* the next primary key of core_task

vars ==
    <<thread_locals, db, nextId, qs, obj, res, own, seen, pc, req, clears, tasks,
      nextTaskId>>

\* ----------------------------------------------------------- context store

get_current_tenant(tl, th) ==
    IF tl[th] = NoAttr THEN None ELSE tl[th]

\* faulty variant: a tenant of None is not stored, the old value stays
set_current_tenant_keeps(tl, th, t) ==
    IF t = None THEN tl ELSE [tl EXCEPT ![th] = t]

\* faulty variant: the tenant is stored process-wide, for every thread
set_current_tenant_global(tl, th, t) ==
    [x \in Threads |-> t]

set_current_tenant(tl, th, t) ==
    [tl EXCEPT ![th] = t]

\* faulty variant: clearing does nothing
clear_current_tenant_noop(tl, th) ==
    tl

clear_current_tenant(tl, th) ==
    IF tl[th] # NoAttr THEN [tl EXCEPT ![th] = NoAttr] ELSE tl

\* -------------------------------------------------------------- querysets

\* keyword arguments of filter / get / update / create
NoKw == [tenant |-> Absent, tenant_id |-> Absent, id |-> NoId, name |-> Absent]

\* 'tenant' in kwargs or 'tenant__id' in kwargs or 'tenant_id' in kwargs
\* (tenant__id and tenant_id name the same column; one key stands for both)
ExplicitTenant(kw) ==
    kw.tenant # Absent \/ kw.tenant_id # Absent

\* a queryset: the flag _tenant_filtering_disabled, the conjuncts of its
\* WHERE clause per column, and _result_cache (cached is FALSE while it
\* is None)
NoWhere == [tenant |-> {}, name |-> {}, id |-> {}]

Matches(r, w) ==
    /\ \A t \in w.tenant : r.tenant = t
    /\ \A n \in w.name : r.name = n
    /\ \A i \in w.id : r.id = i

\* the rows a queryset's query selects
Rows(q, d) ==
    {r \in d : Matches(r, q.where)}

\* QuerySet._fetch_all: the rows an iteration, len(), count(), exists() or
\* [:1] of the queryset works on, the cached list once there is one
Fetch(q, d) ==
    IF q.cached THEN q.cache ELSE Rows(q, d)

\* TenantQuerySet.__init__
QS_init ==
    [disabled |-> FALSE, where |-> NoWhere, cached |-> FALSE, cache |-> {}]

\* TenantManager.get_queryset
Mgr_get_queryset ==
    QS_init

\* faulty variant: the clone comes back with the flag __init__ sets
QS_chain_resets_flag(q) ==
    [disabled |-> FALSE, where |-> q.where, cached |-> FALSE, cache |-> {}]

\* TenantQuerySet._chain: a fresh clone that keeps the flag
QS_chain(q) ==
    [disabled |-> q.disabled, where |-> q.where, cached |-> FALSE, cache |-> {}]

\* QuerySet.filter of the base class: a clone with the conjuncts added
Super_filter(q, kw) ==
    [QS_chain(q) EXCEPT
        !.where = [tenant |-> q.where.tenant
                                \cup (IF kw.tenant # Absent THEN {kw.tenant} ELSE {})
                                \cup (IF kw.tenant_id # Absent THEN {kw.tenant_id} ELSE {}),
                   name |-> q.where.name
                                \cup (IF kw.name # Absent THEN {kw.name} ELSE {}),
                   id |-> q.where.id
                                \cup (IF kw.id # NoId THEN {kw.id} ELSE {})]]

\* faulty variant: no test for a missing current tenant, tenant=None is
\* filtered on and matches no row
QS_filter_by_tenant_closed(q, ctx) ==
    IF q.disabled THEN q
    ELSE Super_filter(q, [NoKw EXCEPT !.tenant = ctx])

\* TenantQuerySet._filter_by_tenant; self.filter(tenant=tenant) takes the
\* explicit-tenant branch of TenantQuerySet.filter, so it is the base filter
QS_filter_by_tenant(q, ctx) ==
    IF q.disabled THEN q
    ELSE IF ctx = None THEN q
    ELSE Super_filter(q, [NoKw EXCEPT !.tenant = ctx])

\* TenantQuerySet.all
QS_all(q, ctx) ==
    QS_filter_by_tenant(QS_chain(q), ctx)

\* faulty variant: the current tenant is added even when the caller names one
QS_filter_always_scoped(q, kw, ctx) ==
    QS_filter_by_tenant(Super_filter(q, kw), ctx)

\* TenantQuerySet.filter
QS_filter(q, kw, ctx) ==
    IF ExplicitTenant(kw) THEN Super_filter(q, kw)
    ELSE QS_filter_by_tenant(Super_filter(q, kw), ctx)

\* TenantQuerySet.get, lines 74-78: the kwargs handed to QuerySet.get
QS_get_kwargs(q, kw, ctx) ==
    IF ~ExplicitTenant(kw) /\ ctx # None /\ ~q.disabled
    THEN [kw EXCEPT !.tenant = ctx]
    ELSE kw

\* faulty variant: get() is the base class's get on the base class's filter
QS_get_unscoped(q, kw, ctx, d) ==
    Rows(Super_filter(q, kw), d)

\* TenantQuerySet.get: the rows QuerySet.get finds; QuerySet.get narrows
\* with self.filter(**kwargs), which is TenantQuerySet.filter
QS_get(q, kw, ctx, d) ==
    Rows(QS_filter(q, QS_get_kwargs(q, kw, ctx), ctx), d)

\* faulty variant: several rows found are answered with one of them
GetStatus_first(rows) ==
    IF rows = {} THEN "DoesNotExist" ELSE "ok"

\* QuerySet.get's verdict on the rows found
GetStatus(rows) ==
    IF Cardinality(rows) = 1 THEN "ok"
    ELSE IF rows = {} THEN "DoesNotExist"
    ELSE "MultipleObjectsReturned"

\* TenantQuerySet.without_tenant_filter
QS_without_tenant_filter(q) ==
    [QS_chain(q) EXCEPT !.disabled = TRUE]

\* faulty variant: the tenant argument is never turned into a predicate
QS_for_tenant_ignored(q, t, ctx) ==
    QS_without_tenant_filter(q)

\* TenantQuerySet.for_tenant
QS_for_tenant(q, t, ctx) ==
    IF t = None THEN QS_without_tenant_filter(q)
    ELSE QS_filter(QS_without_tenant_filter(q), [NoKw EXCEPT !.tenant = t], ctx)

\* TenantManager.without_tenant_filter
Mgr_without_tenant_filter ==
    QS_without_tenant_filter(Mgr_get_queryset)

\* TenantManager.for_tenant
Mgr_for_tenant(t, ctx) ==
    QS_for_tenant(Mgr_get_queryset, t, ctx)

\* ------------------------------------------------- instances and writes

\* Project(**kwargs): an unsaved instance
Model_init(kw) ==
    [pk |-> NoId,
     tenant |-> IF kw.tenant # Absent THEN kw.tenant ELSE None,
     name |-> kw.name]

\* hasattr(self, 'tenant') on an instance: Project.tenant is a ForeignKey
\* without null=True, whose descriptor raises an AttributeError subclass
\* while the relation is empty
hasattr_tenant(inst) ==
    inst.tenant # None

\* TenantModelMixin.save, lines 166-169: the instance handed to Model.save
Mixin_save_hook(inst, ctx) ==
    IF inst.pk = NoId /\ ctx # None /\ hasattr_tenant(inst) /\ inst.tenant = None
    THEN [inst EXCEPT !.tenant = ctx]
    ELSE inst

\* Model.save: insert (pk None) or update by pk; tenant is NOT NULL
Model_save(inst, d, nid) ==
    IF inst.tenant = None
    THEN [status |-> "IntegrityError", d |-> d, rows |-> {}]
    ELSE IF inst.pk = NoId
    THEN [status |-> "ok",
          d |-> d \cup {[id |-> nid, tenant |-> inst.tenant, name |-> inst.name]},
          rows |-> {[id |-> nid, tenant |-> inst.tenant, name |-> inst.name]}]
    ELSE [status |-> "ok",
          d |-> {r \in d : r.id # inst.pk}
                    \cup {[id |-> inst.pk, tenant |-> inst.tenant, name |-> inst.name]},
          rows |-> {[id |-> inst.pk, tenant |-> inst.tenant, name |-> inst.name]}]

\* TenantModelMixin.save
Mixin_save(inst, ctx, d, nid) ==
    Model_save(Mixin_save_hook(inst, ctx), d, nid)

\* faulty variant: the loop stops after the first object
Mgr_bulk_create_assign_first(objs, ctx) ==
    [i \in DOMAIN objs |->
        IF i = 1 /\ ctx # None /\ (~hasattr_tenant(objs[i]) \/ objs[i].tenant = None)
        THEN [objs[i] EXCEPT !.tenant = ctx]
        ELSE objs[i]]

\* TenantManager.bulk_create, lines 149-153: the objects after the loop
Mgr_bulk_create_assign(objs, ctx) ==
    [i \in DOMAIN objs |->
        IF ctx # None /\ (~hasattr_tenant(objs[i]) \/ objs[i].tenant = None)
        THEN [objs[i] EXCEPT !.tenant = ctx]
        ELSE objs[i]]

\* QuerySet.bulk_create: one atomic insert of all objects, save() is not
\* called; tenant is NOT NULL
Super_bulk_create(objs, d, nid) ==
    IF \E i \in DOMAIN objs : objs[i].tenant = None
    THEN [status |-> "IntegrityError", d |-> d, rows |-> {}]
    ELSE LET new == {[id |-> nid + i - 1, tenant |-> objs[i].tenant,
                      name |-> objs[i].name] : i \in DOMAIN objs} IN
             [status |-> "ok", d |-> d \cup new, rows |-> new]

\* TenantManager.bulk_create
Mgr_bulk_create(objs, ctx, d, nid) ==
    Super_bulk_create(Mgr_bulk_create_assign(objs, ctx), d, nid)

\* faulty variant: the current tenant is not injected
QS_create_kwargs_plain(kw, ctx) ==
    kw

\* TenantQuerySet.create, lines 83-85 (hasattr(self.model, 'tenant') holds
\* for Project): the kwargs handed to QuerySet.create
QS_create_kwargs(kw, ctx) ==
    IF ctx # None /\ kw.tenant = Absent THEN [kw EXCEPT !.tenant = ctx] ELSE kw

\* TenantQuerySet.create: QuerySet.create builds the instance and saves it
QS_create(kw, ctx, d, nid) ==
    Mixin_save(Model_init(QS_create_kwargs(kw, ctx)), ctx, d, nid)

\* TenantManager.create, lines 142-144
Mgr_create_kwargs(kw, ctx) ==
    IF ctx # None /\ kw.tenant = Absent THEN [kw EXCEPT !.tenant = ctx] ELSE kw

\* TenantManager.create: Manager.create is get_queryset().create(**kwargs)
Mgr_create(kw, ctx, d, nid) ==
    QS_create(Mgr_create_kwargs(kw, ctx), ctx, d, nid)

\* the argument *self._result_cache of lines 92 and 96: hasattr(self,
\* '_result_cache') always holds; None is not iterable, model instances are
\* no filter arguments, and an empty list passes no argument
StarArgsOk(q) ==
    q.cached /\ q.cache = {}

\* QuerySet.update of the base class
Super_update(q, kw, d) ==
    [status |-> "ok",
     d |-> {IF Matches(r, q.where)
            THEN [r EXCEPT !.name = IF kw.name # Absent THEN kw.name ELSE @,
                           !.tenant = IF kw.tenant_id # Absent THEN kw.tenant_id ELSE @]
            ELSE r : r \in d},
     rows |-> Rows(q, d)]

\* TenantQuerySet.update; the trailing .update(**kwargs) is this method
\* again, on the clone filter() returned
RECURSIVE QS_update(_, _, _, _)
QS_update(q, kw, ctx, d) ==
    IF kw.tenant # Absent
    THEN [status |-> "ValueError", d |-> d, rows |-> {}]
    ELSE IF ~StarArgsOk(q)
    THEN [status |-> "TypeError", d |-> d, rows |-> {}]
    ELSE QS_update(QS_filter(QS_filter_by_tenant(q, ctx), NoKw, ctx), kw, ctx, d)

\* faulty variant: delete() is the base class's delete on the receiver
QS_delete_unscoped(q, ctx, d) ==
    [status |-> "ok", d |-> d \ Rows(q, d), rows |-> Rows(q, d)]

\* TenantQuerySet.delete; the trailing .delete() is this method again, on
\* the clone filter() returned
RECURSIVE QS_delete(_, _, _)
QS_delete(q, ctx, d) ==
    IF ~StarArgsOk(q)
    THEN [status |-> "TypeError", d |-> d, rows |-> {}]
    ELSE QS_delete(QS_filter(QS_filter_by_tenant(q, ctx), NoKw, ctx), ctx, d)

\* faulty variant: the instance is deleted without looking at the current tenant
Mixin_delete_unchecked(inst, ctx, d) ==
    [status |-> "ok", d |-> {r \in d : r.id # inst.pk},
     rows |-> {r \in d : r.id = inst.pk}]

\* TenantModelMixin.delete
Mixin_delete(inst, ctx, d) ==
    IF ctx # None /\ hasattr_tenant(inst) /\ inst.tenant # ctx
    THEN [status |-> "ValueError", d |-> d, rows |-> {}]
    ELSE [status |-> "ok", d |-> {r \in d : r.id # inst.pk},
          rows |-> {r \in d : r.id = inst.pk}]

\* ------------------------------------------------------------ the state

Idle ==
    [op |-> "none", via |-> "none", status |-> "none", kw |-> NoKw,
     rows |-> {}, inst |-> {}, arg |-> None, batch |-> <<>>]

Res(op, via, status, kw, rows) ==
    [op |-> op, via |-> via, status |-> status, kw |-> kw, rows |-> rows,
     inst |-> {}, arg |-> None, batch |-> <<>>]

\* a request: its user, request.tenant, and how its view ended
NoReq ==
    [user |-> "none", tenant |-> "unset", outcome |-> "none", inst |-> {}]

Init ==
    /\ thread_locals = [th \in Threads |-> NoAttr]
    /\ db = {}
    /\ nextId = 1
    /\ qs = {}
    /\ obj = {}
    /\ res = Idle
    /\ own = [th \in Threads |-> None]
    /\ seen = [th \in Threads |-> "unread"]
    /\ pc = [th \in Threads |-> "idle"]
    /\ req = [th \in Threads |-> NoReq]
    /\ clears = [th \in Threads |-> 0]
    /\ tasks = {}
    /\ nextTaskId = 1

\* the current tenant of the script's thread
Ctx == get_current_tenant(thread_locals, Main)

\* --------------------------------------------- calls of the context store

SetCurrentTenant(th, t) ==
    /\ res = Idle
    /\ thread_locals' = set_current_tenant(thread_locals, th, t)
    /\ own' = [own EXCEPT ![th] = t]
    /\ seen' = [seen EXCEPT ![th] = "unread"]
    /\ res' = Idle
    /\ UNCHANGED <<db, nextId, qs, obj, pc, req, clears, tasks, nextTaskId>>

GetCurrentTenant(th) ==
    /\ seen' = [seen EXCEPT ![th] = get_current_tenant(thread_locals, th)]
    /\ UNCHANGED <<thread_locals, db, nextId, qs, obj, res, own, pc, req, clears,
                   tasks, nextTaskId>>

ClearCurrentTenant(th) ==
    /\ res = Idle
    /\ thread_locals' = clear_current_tenant(thread_locals, th)
    /\ own' = [own EXCEPT ![th] = None]
    /\ seen' = [seen EXCEPT ![th] = "unread"]
    /\ res' = Idle
    /\ UNCHANGED <<db, nextId, qs, obj, pc, req, clears, tasks, nextTaskId>>

\* ------------------------------------- a script (tests.py, the demo) on Main

FilterKw ==
    {NoKw}
        \cup {[NoKw EXCEPT !.name = n] : n \in Names}
        \cup {[NoKw EXCEPT !.tenant = t] : t \in Tenants}
        \cup {[NoKw EXCEPT !.tenant_id = t] : t \in Tenants}

GetKw ==
    {NoKw}
        \cup {[NoKw EXCEPT !.id = i] : i \in Ids}
        \cup {[NoKw EXCEPT !.name = n] : n \in Names}
        \cup {[NoKw EXCEPT !.tenant = t] : t \in Tenants}

CreateKw ==
    {[NoKw EXCEPT !.name = n] : n \in Names}
        \cup {[NoKw EXCEPT !.name = n, !.tenant = t] : n \in Names, t \in Tenants}

UpdateKw ==
    {[NoKw EXCEPT !.name = n] : n \in Names}
        \cup {[NoKw EXCEPT !.tenant = t] : t \in Tenants}
        \cup {[NoKw EXCEPT !.tenant_id = t] : t \in Tenants}

ScriptFrame ==
    UNCHANGED <<thread_locals, obj, own, seen, pc, req, clears, tasks, nextTaskId>>

\* qs = Project.objects.all(): Manager.all() is get_queryset()
MgrAll ==
    /\ res = Idle
    /\ qs' = {Mgr_get_queryset}
    /\ res' = Idle
    /\ UNCHANGED <<db, nextId>> /\ ScriptFrame

\* qs = Project.objects.filter(**kw): Manager.filter is get_queryset().filter
MgrFilter(kw) ==
    /\ res = Idle
    /\ qs' = {QS_filter(Mgr_get_queryset, kw, Ctx)}
    /\ res' = Idle
    /\ UNCHANGED <<db, nextId>> /\ ScriptFrame

MgrWithoutTenantFilter ==
    /\ res = Idle
    /\ qs' = {Mgr_without_tenant_filter}
    /\ res' = Idle
    /\ UNCHANGED <<db, nextId>> /\ ScriptFrame

MgrForTenant(t) ==
    /\ res = Idle
    /\ qs' = {Mgr_for_tenant(t, Ctx)}
    /\ res' = Idle
    /\ UNCHANGED <<db, nextId>> /\ ScriptFrame

QsAll ==
    /\ res = Idle
    /\ \E q \in qs : qs' = {QS_all(q, Ctx)}
    /\ res' = Idle
    /\ UNCHANGED <<db, nextId>> /\ ScriptFrame

QsFilter(kw) ==
    /\ res = Idle
    /\ \E q \in qs : qs' = {QS_filter(q, kw, Ctx)}
    /\ res' = Idle
    /\ UNCHANGED <<db, nextId>> /\ ScriptFrame

QsWithoutTenantFilter ==
    /\ res = Idle
    /\ \E q \in qs : qs' = {QS_without_tenant_filter(q)}
    /\ res' = Idle
    /\ UNCHANGED <<db, nextId>> /\ ScriptFrame

QsForTenant(t) ==
    /\ res = Idle
    /\ \E q \in qs : qs' = {QS_for_tenant(q, t, Ctx)}
    /\ res' = Idle
    /\ UNCHANGED <<db, nextId>> /\ ScriptFrame

\* Project.objects.all(): TenantManager defines no all(), and Manager.all()
\* returns get_queryset() without calling TenantQuerySet.all()
Mgr_all ==
    Mgr_get_queryset

\* Meta.ordering = ('name',): the rows that may come first
NameRank(n) ==
    IF n = "a" THEN 1 ELSE 2

FirstOf(rows) ==
    {r \in rows : \A o \in rows : NameRank(r.name) <= NameRank(o.name)}

Evaluated(q, d) ==
    [q EXCEPT !.cached = TRUE, !.cache = Fetch(q, d)]

\* list(Project.objects.all())
MgrList ==
    /\ res = Idle
    /\ res' = Res("all", "manager", "ok", NoKw, Fetch(Mgr_all, db))
    /\ UNCHANGED <<db, nextId, qs>> /\ ScriptFrame

\* list(Project.objects.filter(**kw))
MgrListFilter(kw) ==
    /\ res = Idle
    /\ res' = Res("filter", "manager", "ok", kw,
                  Fetch(QS_filter(Mgr_get_queryset, kw, Ctx), db))
    /\ UNCHANGED <<db, nextId, qs>> /\ ScriptFrame

\* Project.objects.count(): Manager.count is get_queryset().count(), and
\* TenantQuerySet does not override count
MgrCount ==
    /\ res = Idle
    /\ res' = Res("count", "manager", "ok", NoKw, Fetch(Mgr_get_queryset, db))
    /\ UNCHANGED <<db, nextId, qs>> /\ ScriptFrame

\* Project.objects.exists()
MgrExists ==
    /\ res = Idle
    /\ res' = Res("exists", "manager", "ok", NoKw, Fetch(Mgr_get_queryset, db))
    /\ UNCHANGED <<db, nextId, qs>> /\ ScriptFrame

\* Project.objects.first()
MgrFirst ==
    /\ res = Idle
    /\ \/ \E r \in FirstOf(Fetch(Mgr_get_queryset, db)) :
              res' = Res("first", "manager", "ok", NoKw, {r})
       \/ /\ Fetch(Mgr_get_queryset, db) = {}
          /\ res' = Res("first", "manager", "ok", NoKw, {})
    /\ UNCHANGED <<db, nextId, qs>> /\ ScriptFrame

\* Project.objects.get(**kw): Manager.get is get_queryset().get
MgrGet(kw) ==
    /\ res = Idle
    /\ LET rows == QS_get(Mgr_get_queryset, kw, Ctx, db) IN
           res' = Res("get", "manager", GetStatus(rows), kw,
                      IF GetStatus(rows) = "ok" THEN rows ELSE {})
    /\ UNCHANGED <<db, nextId, qs>> /\ ScriptFrame

\* list(qs)
QsList ==
    /\ res = Idle
    /\ \E q \in qs :
          /\ res' = Res("list", "queryset", "ok", NoKw, Fetch(q, db))
          /\ qs' = {Evaluated(q, db)}
    /\ UNCHANGED <<db, nextId>> /\ ScriptFrame

\* qs.count(), qs.exists()
QsCount ==
    /\ res = Idle
    /\ \E q \in qs : res' = Res("count", "queryset", "ok", NoKw, Fetch(q, db))
    /\ UNCHANGED <<db, nextId, qs>> /\ ScriptFrame

QsExists ==
    /\ res = Idle
    /\ \E q \in qs : res' = Res("exists", "queryset", "ok", NoKw, Fetch(q, db))
    /\ UNCHANGED <<db, nextId, qs>> /\ ScriptFrame

\* qs.first()
QsFirst ==
    /\ res = Idle
    /\ \E q \in qs :
          \/ \E r \in FirstOf(Fetch(q, db)) :
                 res' = Res("first", "queryset", "ok", NoKw, {r})
          \/ /\ Fetch(q, db) = {}
             /\ res' = Res("first", "queryset", "ok", NoKw, {})
    /\ UNCHANGED <<db, nextId, qs>> /\ ScriptFrame

\* qs.get(**kw)
QsGet(kw) ==
    /\ res = Idle
    /\ \E q \in qs :
          LET rows == QS_get(q, kw, Ctx, db) IN
              res' = Res("get", "queryset", GetStatus(rows), kw,
                         IF GetStatus(rows) = "ok" THEN rows ELSE {})
    /\ UNCHANGED <<db, nextId, qs>> /\ ScriptFrame

\* Project.objects.create(**kw)
MgrCreate(kw) ==
    /\ res = Idle
    /\ nextId <= MaxId
    /\ LET out == Mgr_create(kw, Ctx, db, nextId) IN
          /\ db' = out.d
          /\ nextId' = IF out.status = "ok" THEN nextId + 1 ELSE nextId
          /\ res' = Res("create", "manager", out.status, kw, out.rows)
    /\ UNCHANGED qs /\ ScriptFrame

\* qs.create(**kw)
QsCreate(kw) ==
    /\ res = Idle
    /\ nextId <= MaxId
    /\ qs # {}
    /\ LET out == QS_create(kw, Ctx, db, nextId) IN
          /\ db' = out.d
          /\ nextId' = IF out.status = "ok" THEN nextId + 1 ELSE nextId
          /\ res' = Res("create", "queryset", out.status, kw, out.rows)
    /\ UNCHANGED qs /\ ScriptFrame

\* Project.objects.update(**kw): Manager.update is get_queryset().update
MgrUpdate(kw) ==
    /\ res = Idle
    /\ LET out == QS_update(Mgr_get_queryset, kw, Ctx, db) IN
          /\ db' = out.d
          /\ res' = Res("update", "manager", out.status, kw, out.rows)
    /\ UNCHANGED <<nextId, qs>> /\ ScriptFrame

\* qs.update(**kw)
QsUpdate(kw) ==
    /\ res = Idle
    /\ \E q \in qs :
          LET out == QS_update(q, kw, Ctx, db) IN
              /\ db' = out.d
              /\ res' = Res("update", "queryset", out.status, kw, out.rows)
    /\ UNCHANGED <<nextId, qs>> /\ ScriptFrame

\* qs.delete()
QsDelete ==
    /\ res = Idle
    /\ \E q \in qs :
          LET out == QS_delete(q, Ctx, db) IN
              /\ db' = out.d
              /\ res' = Res("delete", "queryset", out.status, NoKw, out.rows)
    /\ UNCHANGED <<nextId, qs>> /\ ScriptFrame

\* the caller is done with the result of its last call
Discard ==
    /\ res # Idle
    /\ res' = Idle
    /\ UNCHANGED <<thread_locals, db, nextId, qs, obj, own, seen, pc, req, clears,
                   tasks, nextTaskId>>

Next ==
    \/ Discard
    \/ \E t \in Tenants : SetCurrentTenant(Main, t)
    \/ ClearCurrentTenant(Main)
    \/ MgrAll
    \/ \E kw \in FilterKw : MgrFilter(kw)
    \/ MgrWithoutTenantFilter
    \/ \E t \in Tenants \cup {None} : MgrForTenant(t)
    \/ QsAll
    \/ \E kw \in FilterKw : QsFilter(kw)
    \/ QsWithoutTenantFilter
    \/ \E t \in Tenants \cup {None} : QsForTenant(t)
    \/ MgrList
    \/ \E kw \in FilterKw : MgrListFilter(kw)
    \/ MgrCount
    \/ MgrExists
    \/ MgrFirst
    \/ \E kw \in GetKw : MgrGet(kw)
    \/ QsList
    \/ QsCount
    \/ QsExists
    \/ QsFirst
    \/ \E kw \in GetKw : QsGet(kw)
    \/ \E kw \in CreateKw : MgrCreate(kw)
    \/ \E kw \in CreateKw : QsCreate(kw)
    \/ \E kw \in UpdateKw : MgrUpdate(kw)
    \/ \E kw \in UpdateKw : QsUpdate(kw)
    \/ QsDelete

Spec == Init /\ [][Next]_vars

\* ------------------------- a script working on model instances, on Main

\* obj = Project.objects.get(**kw)
InstGet(kw) ==
    /\ res = Idle
    /\ LET rows == QS_get(Mgr_get_queryset, kw, Ctx, db) IN
          /\ res' = Res("get", "manager", GetStatus(rows), kw,
                        IF GetStatus(rows) = "ok" THEN rows ELSE {})
          /\ obj' = IF GetStatus(rows) = "ok"
                    THEN {[pk |-> r.id, tenant |-> r.tenant, name |-> r.name] : r \in rows}
                    ELSE obj
    /\ UNCHANGED <<thread_locals, db, nextId, qs, own, seen, pc, req, clears, tasks,
                   nextTaskId>>

\* obj = Project.objects.without_tenant_filter().get(**kw)
InstGetUnscoped(kw) ==
    /\ res = Idle
    /\ LET rows == QS_get(Mgr_without_tenant_filter, kw, Ctx, db) IN
          /\ res' = Res("get", "unscoped", GetStatus(rows), kw,
                        IF GetStatus(rows) = "ok" THEN rows ELSE {})
          /\ obj' = IF GetStatus(rows) = "ok"
                    THEN {[pk |-> r.id, tenant |-> r.tenant, name |-> r.name] : r \in rows}
                    ELSE obj
    /\ UNCHANGED <<thread_locals, db, nextId, qs, own, seen, pc, req, clears, tasks,
                   nextTaskId>>

\* obj = Project(**kw): a new instance, not saved yet
InstNew(kw) ==
    /\ res = Idle
    /\ obj' = {Model_init(kw)}
    /\ UNCHANGED <<thread_locals, db, nextId, qs, res, own, seen, pc, req, clears,
                   tasks, nextTaskId>>

\* obj.tenant = t
SetAttrTenant(t) ==
    /\ res = Idle
    /\ \E o \in obj : o.tenant # t /\ obj' = {[o EXCEPT !.tenant = t]}
    /\ UNCHANGED <<thread_locals, db, nextId, qs, res, own, seen, pc, req, clears,
                   tasks, nextTaskId>>

\* obj.name = n
SetAttrName(n) ==
    /\ res = Idle
    /\ \E o \in obj : o.name # n /\ obj' = {[o EXCEPT !.name = n]}
    /\ UNCHANGED <<thread_locals, db, nextId, qs, res, own, seen, pc, req, clears,
                   tasks, nextTaskId>>

\* obj.save()
InstSave ==
    /\ res = Idle
    /\ \E o \in obj :
          /\ o.pk = NoId => nextId <= MaxId
          /\ LET out == Mixin_save(o, Ctx, db, nextId) IN
                /\ db' = out.d
                /\ nextId' = IF out.status = "ok" /\ o.pk = NoId
                             THEN nextId + 1 ELSE nextId
                /\ obj' = IF out.status = "ok"
                          THEN {[pk |-> r.id, tenant |-> r.tenant, name |-> r.name]
                                    : r \in out.rows}
                          ELSE obj
                /\ res' = [Res("save", "instance", out.status, NoKw, out.rows)
                              EXCEPT !.inst = {o}]
    /\ UNCHANGED <<thread_locals, qs, own, seen, pc, req, clears, tasks, nextTaskId>>

\* obj.delete() on a saved instance; Model.delete sets its pk to None
InstDelete ==
    /\ res = Idle
    /\ \E o \in obj :
          /\ o.pk # NoId
          /\ LET out == Mixin_delete(o, Ctx, db) IN
                /\ db' = out.d
                /\ obj' = IF out.status = "ok" THEN {[o EXCEPT !.pk = NoId]} ELSE obj
                /\ res' = [Res("delete", "instance", out.status, NoKw, out.rows)
                              EXCEPT !.inst = {o}]
    /\ UNCHANGED <<thread_locals, nextId, qs, own, seen, pc, req, clears, tasks,
                   nextTaskId>>

NextInst ==
    \/ Discard
    \/ \E t \in Tenants : SetCurrentTenant(Main, t)
    \/ ClearCurrentTenant(Main)
    \/ \E kw \in CreateKw : MgrCreate(kw)
    \/ \E kw \in UpdateKw : MgrUpdate(kw)
    \/ \E kw \in GetKw : InstGet(kw)
    \/ \E kw \in GetKw : InstGetUnscoped(kw)
    \/ \E kw \in CreateKw : InstNew(kw)
    \/ \E t \in Tenants : SetAttrTenant(t)
    \/ \E n \in Names : SetAttrName(n)
    \/ InstSave
    \/ InstDelete

SpecInst == Init /\ [][NextInst]_vars

\* --------------------- units of work calling the context store, per thread

NextCtx ==
    \E th \in Threads :
        \/ \E t \in Tenants \cup {None} : SetCurrentTenant(th, t)
        \/ GetCurrentTenant(th)
        \/ ClearCurrentTenant(th)

SpecCtx == Init /\ [][NextCtx]_vars

\* -------------------------------- TenantMiddleware around a request's view

Users == {"anon", "u1", "u2", "u0"}

\* request.user.is_authenticated
is_authenticated(u) ==
    u # "anon"

\* request.user.tenant (User.tenant is nullable)
user_tenant(u) ==
    IF u = "u1" THEN "t1" ELSE IF u = "u2" THEN "t2" ELSE None

\* a request reaches the middleware on an idle worker thread
Begin(th, u) ==
    /\ pc[th] = "idle"
    /\ pc' = [pc EXCEPT ![th] = "process_request"]
    /\ req' = [req EXCEPT ![th] = [NoReq EXCEPT !.user = u]]
    /\ clears' = [clears EXCEPT ![th] = 0]
    /\ UNCHANGED <<thread_locals, db, nextId, qs, obj, res, own, seen, tasks,
                   nextTaskId>>

\* TenantMiddleware.process_request
ProcessRequest(th) ==
    /\ pc[th] = "process_request"
    /\ IF is_authenticated(req[th].user)
       THEN /\ req' = [req EXCEPT ![th].tenant = user_tenant(req[th].user)]
            /\ thread_locals' =
                   set_current_tenant(thread_locals, th, user_tenant(req[th].user))
            /\ own' = [own EXCEPT ![th] = user_tenant(req[th].user)]
            /\ UNCHANGED clears
       ELSE /\ req' = [req EXCEPT ![th].tenant = None]
            /\ thread_locals' = clear_current_tenant(thread_locals, th)
            /\ own' = [own EXCEPT ![th] = None]
            /\ clears' = [clears EXCEPT ![th] = @ + 1]
    /\ pc' = [pc EXCEPT ![th] = "view"]
    /\ seen' = [seen EXCEPT ![th] = "unread"]
    /\ UNCHANGED <<db, nextId, qs, obj, res, tasks, nextTaskId>>

\* faulty variant: the test of request.tenant is missing
tenant_check_no403(u, t) ==
    IF ~is_authenticated(u) THEN "redirect" ELSE "pass"

\* @login_required and @tenant_check in front of every view: what they
\* answer for user u with request.tenant = t
tenant_check(u, t) ==
    IF ~is_authenticated(u) THEN "redirect"
    ELSE IF t = None THEN "403"
    ELSE "pass"

\* the decorators of the view run: they answer themselves or call the body
ViewDecorators(th) ==
    /\ pc[th] = "view"
    /\ LET out == tenant_check(req[th].user, req[th].tenant) IN
           IF out = "pass"
           THEN /\ pc' = [pc EXCEPT ![th] = "body"]
                /\ UNCHANGED req
           ELSE /\ pc' = [pc EXCEPT ![th] = "process_response"]
                /\ req' = [req EXCEPT ![th].outcome = out]
    /\ UNCHANGED <<thread_locals, db, nextId, qs, obj, res, own, seen, clears,
                   tasks, nextTaskId>>

\* project_create: Project.objects.create(name=name) in the view body
ViewCreate(th, n) ==
    /\ pc[th] = "body"
    /\ nextId <= MaxId
    /\ LET ctx == get_current_tenant(thread_locals, th)
           out == Mgr_create([NoKw EXCEPT !.name = n], ctx, db, nextId) IN
          /\ db' = out.d
          /\ nextId' = IF out.status = "ok" THEN nextId + 1 ELSE nextId
          /\ seen' = [seen EXCEPT ![th] = ctx]
    /\ UNCHANGED <<thread_locals, qs, obj, res, own, pc, req, clears, tasks,
                   nextTaskId>>

\* the view body returns a response: a page ("ok") or an error page it
\* chose itself ("error": 400)
ViewReturns(th, how) ==
    /\ pc[th] = "body"
    /\ seen' = [seen EXCEPT ![th] = get_current_tenant(thread_locals, th)]
    /\ req' = [req EXCEPT ![th].outcome = how]
    /\ pc' = [pc EXCEPT ![th] = "process_response"]
    /\ UNCHANGED <<thread_locals, db, nextId, qs, obj, res, own, clears, tasks,
                   nextTaskId>>

\* the view body raises: the handler calls process_exception of the middleware
ViewRaises(th) ==
    /\ pc[th] = "body"
    /\ seen' = [seen EXCEPT ![th] = get_current_tenant(thread_locals, th)]
    /\ req' = [req EXCEPT ![th].outcome = "raise"]
    /\ pc' = [pc EXCEPT ![th] = "process_exception"]
    /\ UNCHANGED <<thread_locals, db, nextId, qs, obj, res, own, clears, tasks,
                   nextTaskId>>

\* faulty variant: process_exception leaves the context alone
ProcessException_skipped(th) ==
    /\ pc[th] = "process_exception"
    /\ pc' = [pc EXCEPT ![th] = "process_response"]
    /\ UNCHANGED <<thread_locals, db, nextId, qs, obj, res, own, seen, req, clears,
                   tasks, nextTaskId>>

\* TenantMiddleware.process_exception; it returns None, so the handler turns
\* the exception into a 500 response, which passes through process_response
ProcessException(th) ==
    /\ pc[th] = "process_exception"
    /\ thread_locals' = clear_current_tenant(thread_locals, th)
    /\ own' = [own EXCEPT ![th] = None]
    /\ seen' = [seen EXCEPT ![th] = "unread"]
    /\ clears' = [clears EXCEPT ![th] = @ + 1]
    /\ pc' = [pc EXCEPT ![th] = "process_response"]
    /\ UNCHANGED <<db, nextId, qs, obj, res, req, tasks, nextTaskId>>

\* TenantMiddleware.process_response
ProcessResponse(th) ==
    /\ pc[th] = "process_response"
    /\ thread_locals' = clear_current_tenant(thread_locals, th)
    /\ own' = [own EXCEPT ![th] = None]
    /\ seen' = [seen EXCEPT ![th] = "unread"]
    /\ clears' = [clears EXCEPT ![th] = @ + 1]
    /\ pc' = [pc EXCEPT ![th] = "idle"]
    /\ UNCHANGED <<db, nextId, qs, obj, res, req, tasks, nextTaskId>>

NextMW ==
    \E th \in Workers :
        \/ \E u \in Users : Begin(th, u)
        \/ ProcessRequest(th)
        \/ ViewDecorators(th)
        \/ \E n \in Names : ViewCreate(th, n)
        \/ \E how \in {"ok", "error"} : ViewReturns(th, how)
        \/ ViewRaises(th)
        \/ ProcessException(th)
        \/ ProcessResponse(th)

SpecMW == Init /\ [][NextMW]_vars

\* ------ the middleware on threads whose earlier work left a tenant behind

\* code outside a request (a script, a command) ran on an idle worker thread
\* and returned without clearing the tenant it had set
EarlierWork(th, t) ==
    /\ pc[th] = "idle"
    /\ SetCurrentTenant(th, t)

NextSlot ==
    \/ NextMW
    \/ \E th \in Workers, t \in Tenants : EarlierWork(th, t)

SpecSlot == Init /\ [][NextSlot]_vars

\* ------------------- the project and task views, on the worker threads

TaskIds == 1..MaxTaskId

\* the users sending requests: one of each tenant
AppUsers == {"u1", "u2"}

\* the name or title a request posts
AppNames == {"a"}

\* faulty variant: the object is looked up without the current tenant
get_object_or_404_unscoped(kw, ctx, d) ==
    Rows(Super_filter(QS_init, kw), d)

\* get_object_or_404(Model, id=..): Model._default_manager.all().get(**kw)
get_object_or_404(kw, ctx, d) ==
    QS_get(Mgr_all, kw, ctx, d)

\* the instance built from a row of core_project
ProjectInst(r) ==
    [kind |-> "project", pk |-> r.id, tenant |-> r.tenant, name |-> r.name,
     project |-> NoId]

\* the instance built from a row of core_task
TaskInst(r) ==
    [kind |-> "task", pk |-> r.id, tenant |-> r.tenant, name |-> r.name,
     project |-> r.project]

\* Model.save of a Task: insert, or update by pk and insert if no row has
\* that pk; tenant is NOT NULL and project must reference a stored Project
Task_save(inst, ts, d, nid) ==
    IF inst.tenant = None \/ inst.project \notin {p.id : p \in d}
    THEN [status |-> "IntegrityError", ts |-> ts, rows |-> {}]
    ELSE LET row == [id |-> IF inst.pk = NoId THEN nid ELSE inst.pk,
                     tenant |-> inst.tenant, name |-> inst.name,
                     project |-> inst.project] IN
             [status |-> "ok", ts |-> {r \in ts : r.id # row.id} \cup {row},
              rows |-> {row}]

\* Task.objects.create(project=project, title=title, is_done=False)
Task_create(project, title, ctx, ts, d, nid) ==
    LET kw == QS_create_kwargs(Mgr_create_kwargs([NoKw EXCEPT !.name = title], ctx), ctx)
        inst == [kind |-> "task", pk |-> NoId,
                 tenant |-> IF kw.tenant # Absent THEN kw.tenant ELSE None,
                 name |-> title, project |-> project.pk] IN
        Task_save(Mixin_save_hook(inst, ctx), ts, d, nid)

\* on_delete=CASCADE of Task.project: the tasks left when project pid goes
Cascade(ts, pid) ==
    {t \in ts : t.project # pid}

\* the view body is over: it returns its response, or the exception of its
\* last call leaves it
ViewEnds(th, status) ==
    /\ req' = [req EXCEPT ![th].outcome = IF status = "ok" THEN "ok" ELSE "raise",
                          ![th].inst = {}]
    /\ pc' = [pc EXCEPT ![th] = IF status = "ok" THEN "process_response"
                                ELSE "process_exception"]
    /\ seen' = [seen EXCEPT ![th] = get_current_tenant(thread_locals, th)]

\* project = get_object_or_404(Project, id=project_id); Http404 leaves the view
ViewGetProject(th, i) ==
    /\ pc[th] = "body"
    /\ req[th].inst = {}
    /\ LET rows == get_object_or_404([NoKw EXCEPT !.id = i],
                                     get_current_tenant(thread_locals, th), db) IN
           IF GetStatus(rows) = "ok"
           THEN /\ req' = [req EXCEPT ![th].inst = {ProjectInst(r) : r \in rows}]
                /\ UNCHANGED <<pc, seen>>
           ELSE ViewEnds(th, "Http404")
    /\ UNCHANGED <<thread_locals, db, nextId, qs, obj, res, own, clears, tasks,
                   nextTaskId>>

\* task = get_object_or_404(Task, id=task_id)
ViewGetTask(th, i) ==
    /\ pc[th] = "body"
    /\ req[th].inst = {}
    /\ LET rows == get_object_or_404([NoKw EXCEPT !.id = i],
                                     get_current_tenant(thread_locals, th), tasks) IN
           IF GetStatus(rows) = "ok"
           THEN /\ req' = [req EXCEPT ![th].inst = {TaskInst(r) : r \in rows}]
                /\ UNCHANGED <<pc, seen>>
           ELSE ViewEnds(th, "Http404")
    /\ UNCHANGED <<thread_locals, db, nextId, qs, obj, res, own, clears, tasks,
                   nextTaskId>>

\* project_edit, POST: project.name = name; project.save()
ViewProjectSave(th, n) ==
    /\ pc[th] = "body"
    /\ \E o \in req[th].inst :
          /\ o.kind = "project"
          /\ LET out == Mixin_save([pk |-> o.pk, tenant |-> o.tenant, name |-> n],
                                   get_current_tenant(thread_locals, th), db, nextId) IN
                /\ db' = out.d
                /\ ViewEnds(th, out.status)
    /\ UNCHANGED <<thread_locals, nextId, qs, obj, res, own, clears, tasks, nextTaskId>>

\* project_delete: project.delete(), which takes the project's tasks along
ViewProjectDelete(th) ==
    /\ pc[th] = "body"
    /\ \E o \in req[th].inst :
          /\ o.kind = "project"
          /\ LET out == Mixin_delete(o, get_current_tenant(thread_locals, th), db) IN
                /\ db' = out.d
                /\ tasks' = IF out.status = "ok" THEN Cascade(tasks, o.pk) ELSE tasks
                /\ ViewEnds(th, out.status)
    /\ UNCHANGED <<thread_locals, nextId, qs, obj, res, own, clears, nextTaskId>>

\* task_create, POST: Task.objects.create(project=project, title=title, ..)
ViewTaskCreate(th, n) ==
    /\ pc[th] = "body"
    /\ nextTaskId <= MaxTaskId
    /\ \E o \in req[th].inst :
          /\ o.kind = "project"
          /\ LET out == Task_create(o, n, get_current_tenant(thread_locals, th),
                                    tasks, db, nextTaskId) IN
                /\ tasks' = out.ts
                /\ nextTaskId' = IF out.status = "ok" THEN nextTaskId + 1 ELSE nextTaskId
                /\ ViewEnds(th, out.status)
    /\ UNCHANGED <<thread_locals, db, nextId, qs, obj, res, own, clears>>

\* task_edit, POST (and task_toggle): a field of the task is set; task.save()
ViewTaskSave(th, n) ==
    /\ pc[th] = "body"
    /\ \E o \in req[th].inst :
          /\ o.kind = "task"
          /\ LET out == Task_save(Mixin_save_hook([o EXCEPT !.name = n],
                                      get_current_tenant(thread_locals, th)),
                                  tasks, db, nextTaskId) IN
                /\ tasks' = out.ts
                /\ ViewEnds(th, out.status)
    /\ UNCHANGED <<thread_locals, db, nextId, qs, obj, res, own, clears, nextTaskId>>

\* task_delete: task.delete()
ViewTaskDelete(th) ==
    /\ pc[th] = "body"
    /\ \E o \in req[th].inst :
          /\ o.kind = "task"
          /\ LET out == Mixin_delete(o, get_current_tenant(thread_locals, th), tasks) IN
                /\ tasks' = out.d
                /\ ViewEnds(th, out.status)
    /\ UNCHANGED <<thread_locals, db, nextId, qs, obj, res, own, clears, nextTaskId>>

\* the view renders its page or form and returns
ViewRenders(th) ==
    /\ pc[th] = "body"
    /\ ViewEnds(th, "ok")
    /\ UNCHANGED <<thread_locals, db, nextId, qs, obj, res, own, clears, tasks,
                   nextTaskId>>

NextApp ==
    \E th \in Workers :
        \/ \E u \in AppUsers : Begin(th, u)
        \/ ProcessRequest(th)
        \/ ViewDecorators(th)
        \/ \E n \in AppNames : ViewCreate(th, n)
        \/ \E i \in Ids : ViewGetProject(th, i)
        \/ \E i \in TaskIds : ViewGetTask(th, i)
        \/ \E n \in AppNames : ViewProjectSave(th, n)
        \/ ViewProjectDelete(th)
        \/ \E n \in AppNames : ViewTaskCreate(th, n)
        \/ \E n \in AppNames : ViewTaskSave(th, n)
        \/ ViewTaskDelete(th)
        \/ ViewRenders(th)
        \/ ProcessException(th)
        \/ ProcessResponse(th)

SpecApp == Init /\ [][NextApp]_vars

\* ------------- a script reading through the manager and its views, on Main

ViewFilterKw ==
    FilterKw
        \cup {[NoKw EXCEPT !.name = n, !.tenant = t] : n \in Names, t \in Tenants}

\* the caller's predicate of a filter / get call, without its tenant part
Pred(r, kw) ==
    /\ kw.name # Absent => r.name = kw.name
    /\ kw.id # NoId => r.id = kw.id

\* the tenant a filter / get call names
KwTenant(kw) ==
    IF kw.tenant # Absent THEN kw.tenant ELSE kw.tenant_id

\* list(Project.objects.get_queryset().all()): TenantQuerySet.all itself
MgrAllAll ==
    /\ res = Idle
    /\ res' = Res("all", "default_qs", "ok", NoKw,
                  Fetch(QS_all(Mgr_get_queryset, Ctx), db))
    /\ UNCHANGED <<db, nextId, qs>> /\ ScriptFrame

\* list(Project.objects.for_tenant(t))
ForTenantList(t) ==
    /\ res = Idle
    /\ res' = [Res("list", "for_tenant", "ok", NoKw, Fetch(Mgr_for_tenant(t, Ctx), db))
                  EXCEPT !.arg = t]
    /\ UNCHANGED <<db, nextId, qs>> /\ ScriptFrame

\* list(Project.objects.for_tenant(t).all())
ForTenantAll(t) ==
    /\ res = Idle
    /\ res' = [Res("all", "for_tenant", "ok", NoKw,
                   Fetch(QS_all(Mgr_for_tenant(t, Ctx), Ctx), db))
                  EXCEPT !.arg = t]
    /\ UNCHANGED <<db, nextId, qs>> /\ ScriptFrame

\* list(Project.objects.for_tenant(t).filter(**kw))
ForTenantFilter(t, kw) ==
    /\ res = Idle
    /\ res' = [Res("filter", "for_tenant", "ok", kw,
                   Fetch(QS_filter(Mgr_for_tenant(t, Ctx), kw, Ctx), db))
                  EXCEPT !.arg = t]
    /\ UNCHANGED <<db, nextId, qs>> /\ ScriptFrame

\* Project.objects.for_tenant(t).get(**kw)
ForTenantGet(t, kw) ==
    /\ res = Idle
    /\ LET rows == QS_get(Mgr_for_tenant(t, Ctx), kw, Ctx, db) IN
           res' = [Res("get", "for_tenant", GetStatus(rows), kw,
                       IF GetStatus(rows) = "ok" THEN rows ELSE {})
                      EXCEPT !.arg = t]
    /\ UNCHANGED <<db, nextId, qs>> /\ ScriptFrame

\* list(Project.objects.without_tenant_filter())
WithoutList ==
    /\ res = Idle
    /\ res' = Res("list", "without", "ok", NoKw, Fetch(Mgr_without_tenant_filter, db))
    /\ UNCHANGED <<db, nextId, qs>> /\ ScriptFrame

\* list(Project.objects.without_tenant_filter().all())
WithoutAll ==
    /\ res = Idle
    /\ res' = Res("all", "without", "ok", NoKw,
                  Fetch(QS_all(Mgr_without_tenant_filter, Ctx), db))
    /\ UNCHANGED <<db, nextId, qs>> /\ ScriptFrame

\* list(Project.objects.without_tenant_filter().filter(**kw))
WithoutFilter(kw) ==
    /\ res = Idle
    /\ res' = Res("filter", "without", "ok", kw,
                  Fetch(QS_filter(Mgr_without_tenant_filter, kw, Ctx), db))
    /\ UNCHANGED <<db, nextId, qs>> /\ ScriptFrame

\* Project.objects.without_tenant_filter().get(**kw)
WithoutGet(kw) ==
    /\ res = Idle
    /\ LET rows == QS_get(Mgr_without_tenant_filter, kw, Ctx, db) IN
           res' = Res("get", "without", GetStatus(rows), kw,
                      IF GetStatus(rows) = "ok" THEN rows ELSE {})
    /\ UNCHANGED <<db, nextId, qs>> /\ ScriptFrame

\* Project.objects.without_tenant_filter().create(**kw)
WithoutCreate(kw) ==
    /\ res = Idle
    /\ nextId <= MaxId
    /\ LET out == QS_create(kw, Ctx, db, nextId) IN
          /\ db' = out.d
          /\ nextId' = IF out.status = "ok" THEN nextId + 1 ELSE nextId
          /\ res' = Res("create", "without", out.status, kw, out.rows)
    /\ UNCHANGED qs /\ ScriptFrame

\* batches of unsaved instances that still fit the table
Batches(room) ==
    UNION {[1..n -> {Model_init(kw) : kw \in CreateKw}] : n \in 1..room}

\* Project.objects.bulk_create(objs)
MgrBulkCreate(objs) ==
    /\ res = Idle
    /\ LET out == Mgr_bulk_create(objs, Ctx, db, nextId)
           after == Mgr_bulk_create_assign(objs, Ctx) IN
          /\ db' = out.d
          /\ nextId' = IF out.status = "ok" THEN nextId + Len(objs) ELSE nextId
          /\ res' = [Res("bulk_create", "manager", out.status, NoKw, out.rows)
                        EXCEPT !.batch = [i \in DOMAIN objs |->
                                             [given |-> objs[i].tenant,
                                              tenant |-> after[i].tenant,
                                              name |-> objs[i].name]]]
    /\ UNCHANGED qs /\ ScriptFrame

NextView ==
    \/ Discard
    \/ \E t \in Tenants \cup {None} : SetCurrentTenant(Main, t)
    \/ ClearCurrentTenant(Main)
    \/ \E kw \in CreateKw : MgrCreate(kw)
    \/ MgrList
    \/ MgrAllAll
    \/ \E kw \in ViewFilterKw : MgrListFilter(kw)
    \/ \E kw \in GetKw : MgrGet(kw)
    \/ \E t \in Tenants \cup {None} : ForTenantList(t)
    \/ \E t \in Tenants \cup {None} : ForTenantAll(t)
    \/ \E t \in Tenants \cup {None}, kw \in FilterKw : ForTenantFilter(t, kw)
    \/ \E t \in Tenants \cup {None}, kw \in GetKw : ForTenantGet(t, kw)
    \/ WithoutList
    \/ WithoutAll
    \/ \E kw \in FilterKw : WithoutFilter(kw)
    \/ \E kw \in GetKw : WithoutGet(kw)
    \/ \E kw \in CreateKw : WithoutCreate(kw)
    \/ \E objs \in Batches(MaxId + 1 - nextId) : MgrBulkCreate(objs)

SpecView == Init /\ [][NextView]_vars

\* ------------------------------------------------------------------ claims

\* the receiver of the last call: the manager's queryset, or the held one
Receiver ==
    IF res.via = "queryset" THEN qs ELSE {Mgr_get_queryset}

\* C1: under context T2, get(id=E.id) without a tenant argument, on the
\* manager or on a queryset whose tenant filtering is not disabled, raises
\* DoesNotExist and returns nothing when E belongs to another tenant.
C1_GetOtherTenantNotFound ==
    (/\ res.op = "get"
     /\ res.via \in {"manager", "queryset"}
     /\ res.kw.id # NoId
     /\ ~ExplicitTenant(res.kw)
     /\ Ctx \in Tenants
     /\ \A q \in Receiver : ~q.disabled
     /\ \E e \in db : e.id = res.kw.id /\ e.tenant # Ctx)
        => (res.status = "DoesNotExist" /\ res.rows = {})

C1_Witness ==
    /\ res.op = "get"
    /\ res.via = "manager"
    /\ res.kw.id # NoId
    /\ ~ExplicitTenant(res.kw)
    /\ Ctx = "t2"
    /\ \E e \in db : e.id = res.kw.id /\ e.tenant = "t1"
    /\ res.status = "DoesNotExist"

\* C2 (as claimed): under context T, list(Project.objects.all()) yields
\* exactly the stored rows whose tenant is T.
C2_ManagerAllIsScoped ==
    (res.op = "all" /\ res.via = "manager" /\ Ctx \in Tenants)
        => res.rows = {r \in db : r.tenant = Ctx}

\* C3: create(**fields) without a tenant, on the manager or on any
\* queryset, under context T, stores a row whose tenant is T.
C3_CreateBindsCurrentTenant ==
    (res.op = "create" /\ res.kw.tenant = Absent /\ Ctx \in Tenants)
        => /\ res.status = "ok"
           /\ res.rows # {}
           /\ res.rows \subseteq db
           /\ \A r \in res.rows : r.tenant = Ctx

C3_Witness ==
    /\ res.op = "create"
    /\ res.via = "queryset"
    /\ res.kw.tenant = Absent
    /\ Ctx = "t1"
    /\ \E q \in qs : q.where.tenant = {"t2"}
    /\ \E r \in res.rows : r.tenant = "t1" /\ r \in db

\* C4: once the middleware has finished a request, however its view ended,
\* the current tenant of the worker thread is absent.
C4_ContextClearedAfterRequest ==
    \A th \in Workers :
        (pc[th] = "idle" /\ req[th].outcome # "none")
            => get_current_tenant(thread_locals, th) = None

C4_Witness ==
    \E th \in Workers :
        /\ pc[th] = "idle"
        /\ req[th].outcome = "raise"
        /\ req[th].tenant \in Tenants
        /\ get_current_tenant(thread_locals, th) = None

\* C5: whatever the other threads set or clear, get_current_tenant() in a
\* thread returns what that thread last set, or None if it set nothing or
\* cleared it.
C5_ThreadSeesOwnTenant ==
    \A th \in Threads :
        /\ get_current_tenant(thread_locals, th) = own[th]
        /\ seen[th] # "unread" => seen[th] = own[th]

C5_Witness ==
    /\ seen["w1"] = "t1"
    /\ seen["w2"] = "t2"
    /\ seen["w3"] = None
    /\ thread_locals["w3"] = NoAttr

\* C6 (as claimed): update(**fields) raises ValueError whenever fields name
\* another tenant for a stored row, as tenant or as tenant_id.
C6_UpdateTenantForbidden ==
    (/\ res.op = "update"
     /\ \E r \in db :
            \/ res.kw.tenant \in Tenants \ {r.tenant}
            \/ res.kw.tenant_id \in Tenants \ {r.tenant})
        => res.status = "ValueError"

\* C7 (as claimed): no operation changes the tenant of a stored row.
C7_TenantNeverChanges ==
    [][\A r \in db : \A n \in db' : n.id = r.id => n.tenant = r.tenant]_vars

\* C8: under context T, delete() on a queryset, whatever its predicates,
\* removes no row whose tenant is not T.
C8_DeleteStaysInTenant ==
    [][(res'.op = "delete" /\ res'.via = "queryset" /\ Ctx \in Tenants)
          => \A r \in db \ db' : r.tenant = Ctx]_vars

C8_Witness ==
    /\ res.op = "delete"
    /\ res.via = "queryset"
    /\ Ctx = "t1"
    /\ \E q \in qs : ~q.disabled /\ q.where = NoWhere
    /\ \E r \in db : r.tenant = "t2"

\* C9: obj.delete() raises ValueError and leaves the row stored when the
\* current tenant is set and differs from the instance's tenant; otherwise
\* the row is removed.
C9_InstanceDeleteChecksTenant ==
    (res.op = "delete" /\ res.via = "instance")
        => \A o \in res.inst :
               IF Ctx # None /\ o.tenant # Ctx
               THEN /\ res.status = "ValueError"
                    /\ \E r \in db : r.id = o.pk
               ELSE /\ res.status = "ok"
                    /\ ~(\E r \in db : r.id = o.pk)

C9_Witness ==
    /\ res.op = "delete"
    /\ res.via = "instance"
    /\ Ctx = "t2"
    /\ \E o \in res.inst : o.tenant = "t1" /\ \E r \in db : r.id = o.pk /\ r.tenant = "t1"
    /\ res.status = "ValueError"

\* C10 (as claimed): under context T, every read through the manager
\* (listing, filter, get, count, exists, first) without a tenant argument
\* works on rows of tenant T only.
C10_ManagerReadsAreScoped ==
    (/\ res.via = "manager"
     /\ res.op \in {"all", "filter", "get", "count", "exists", "first"}
     /\ ~ExplicitTenant(res.kw)
     /\ Ctx \in Tenants)
        => \A r \in res.rows : r.tenant = Ctx

\* C11: under context T, filter(**kw) through the manager with an explicit
\* tenant T2 in the same call returns exactly T2's rows that match the rest
\* of kw, without an error.
C11_ExplicitTenantWins ==
    (/\ res.op = "filter"
     /\ res.via = "manager"
     /\ ExplicitTenant(res.kw)
     /\ Ctx \in Tenants
     /\ KwTenant(res.kw) # Ctx)
        => /\ res.status = "ok"
           /\ res.rows = {r \in db : r.tenant = KwTenant(res.kw) /\ Pred(r, res.kw)}

C11_Witness ==
    /\ res.op = "filter"
    /\ res.via = "manager"
    /\ res.kw.tenant = "t2"
    /\ res.kw.name = "a"
    /\ Ctx = "t1"
    /\ \E r \in db : r.tenant = "t1" /\ r.name = "a"
    /\ \E r \in res.rows : r.tenant = "t2" /\ r.name = "a"

\* C12: under context T1, Project.objects.for_tenant(T2), its all(), and a
\* filter or get derived from it return T2's rows that match the caller's
\* predicate, as if no current tenant were set.
C12_ForTenantIgnoresContext ==
    (/\ res.via = "for_tenant"
     /\ res.arg \in Tenants
     /\ Ctx \in Tenants
     /\ Ctx # res.arg
     /\ ~ExplicitTenant(res.kw))
        => LET m == {r \in db : r.tenant = res.arg /\ Pred(r, res.kw)} IN
               IF res.op = "get"
               THEN /\ res.status = GetStatus(m)
                    /\ res.status = "ok" => res.rows = m
               ELSE res.rows = m

C12_Witness ==
    /\ res.via = "for_tenant"
    /\ res.op = "filter"
    /\ res.arg = "t2"
    /\ res.kw.name = "a"
    /\ Ctx = "t1"
    /\ \E r \in db : r.tenant = "t1" /\ r.name = "a"
    /\ \E r \in res.rows : r.tenant = "t2"

\* the rows a read with kwargs kw returns when no current tenant is applied
Unscoped(kw, d) ==
    {r \in d : (ExplicitTenant(kw) => r.tenant = KwTenant(kw)) /\ Pred(r, kw)}

\* C13: an operation derived from Project.objects.without_tenant_filter()
\* makes no implicit use of the current tenant: a listing, all(), filter or
\* get applies only the caller's predicate, and a create whose fields carry
\* no tenant stores no tenant taken from the context.
C13_WithoutViewIgnoresContext ==
    res.via = "without"
        => IF res.op = "create"
           THEN res.kw.tenant = Absent => \A r \in res.rows : r.tenant \notin Tenants
           ELSE IF res.op = "get"
           THEN /\ res.status = GetStatus(Unscoped(res.kw, db))
                /\ res.status = "ok" => res.rows = Unscoped(res.kw, db)
           ELSE res.rows = Unscoped(res.kw, db)

\* len(Project.objects.for_tenant(t).all()) summed over the tenants ts
RECURSIVE ForTenantTotal(_, _, _)
ForTenantTotal(ts, ctx, d) ==
    IF ts = {}
    THEN 0
    ELSE LET t == CHOOSE x \in ts : TRUE IN
             Cardinality(Fetch(QS_all(Mgr_for_tenant(t, ctx), ctx), d))
                 + ForTenantTotal(ts \ {t}, ctx, d)

\* C14: on the same data and under any context, the number of rows
\* Project.objects.without_tenant_filter() lists (directly or through all())
\* equals the sum over all tenants t of the number of rows for_tenant(t) lists.
C14_ViewsPartitionRows ==
    (res.via = "without" /\ res.op \in {"list", "all"})
        => Cardinality(res.rows) = ForTenantTotal(Tenants, Ctx, db)

C14_Witness ==
    /\ res.via = "without"
    /\ res.op = "all"
    /\ Ctx = "t1"
    /\ \E r \in res.rows : r.tenant = "t1"
    /\ \E r \in res.rows : r.tenant = "t2"

\* C15: Project.objects.bulk_create under context T gives T to every object
\* of the batch that has no tenant and leaves an explicitly set tenant as it
\* is; with no context no object is given a tenant. So the objects of one
\* batch that lacked a tenant all carry the same tenant afterwards, or none
\* of them carries one; what is stored is what the objects carry.
C15_BulkCreateAssignsUniformly ==
    res.op = "bulk_create"
        => /\ \A i \in DOMAIN res.batch :
                 IF res.batch[i].given # None
                 THEN res.batch[i].tenant = res.batch[i].given
                 ELSE res.batch[i].tenant = Ctx
           /\ \A i, j \in DOMAIN res.batch :
                 (res.batch[i].given = None /\ res.batch[j].given = None)
                     => res.batch[i].tenant = res.batch[j].tenant
           /\ res.status = "ok"
                 => /\ Cardinality(res.rows) = Len(res.batch)
                    /\ \A i \in DOMAIN res.batch :
                          \E r \in res.rows : /\ r.tenant = res.batch[i].tenant
                                              /\ r.name = res.batch[i].name
           /\ res.status # "ok" => res.rows = {}

C15_Witness ==
    /\ res.op = "bulk_create"
    /\ res.status = "ok"
    /\ Ctx = "t1"
    /\ Len(res.batch) = 2
    /\ res.batch[1].given = None
    /\ res.batch[2].given = None
    /\ res.batch[1].tenant = "t1"
    /\ res.batch[2].tenant = "t1"

\* clear_current_tenant() calls made once the view is over: all calls of the
\* request but the one process_request makes for an anonymous user
EndClears(th) ==
    clears[th] - (IF is_authenticated(req[th].user) THEN 0 ELSE 1)

C18_ViewBodyHasActorsTenant ==
    \A th \in Workers :
        /\ pc[th] = "body"
              => /\ get_current_tenant(thread_locals, th) \in Tenants
                 /\ get_current_tenant(thread_locals, th) = user_tenant(req[th].user)
        /\ (pc[th] \in {"body", "process_exception", "process_response"}
                /\ seen[th] # "unread")
              => seen[th] = user_tenant(req[th].user)
        /\ (req[th].user = "anon" /\ pc[th] \in {"view", "process_response"})
              => seen[th] = "unread"
        /\ (req[th].user = "anon" /\ req[th].outcome # "none")
              => req[th].outcome = "redirect"
        /\ (req[th].user = "u0" /\ pc[th] \in {"view", "process_response"})
              => seen[th] = "unread"
        /\ (req[th].user = "u0" /\ req[th].outcome # "none")
              => req[th].outcome = "403"

C18_Witness ==
    /\ pc["w1"] = "body"
    /\ req["w1"].user = "u1"
    /\ seen["w1"] = "t1"
    /\ \E r \in db : r.tenant = "t1"
    /\ pc["w2"] = "body"
    /\ req["w2"].user = "u2"

\* C17: with no current tenant, Project.objects.all(), TenantQuerySet.all()
\* and filter(**kw) without a tenant in kw apply no tenant predicate: they
\* return the (matching) rows of all tenants.
C17_AbsentContextIsUnfiltered ==
    (/\ Ctx = None
     /\ res.via \in {"manager", "default_qs"}
     /\ res.op \in {"all", "filter"}
     /\ ~ExplicitTenant(res.kw))
        => /\ res.status = "ok"
           /\ res.rows = {r \in db : Pred(r, res.kw)}

C17_Witness ==
    /\ Ctx = None
    /\ res.via = "manager"
    /\ res.op = "filter"
    /\ res.kw.name = "a"
    /\ \E r \in res.rows : r.tenant = "t1"
    /\ \E r \in res.rows : r.tenant = "t2"

\* the rows of tenant t in d
Own(d, t) ==
    {r \in d : r.tenant = t}

\* C19: under a fixed context T1, Project.objects.all(), filter(**kw) and
\* get(**kw) without a tenant in kw answer on the stored rows what they
\* answer on T1's rows alone, so two tables that agree on T1's rows get the
\* same result or the same error.
C19_ReadsDependOnOwnRowsOnly ==
    (/\ Ctx \in Tenants
     /\ res.via = "manager"
     /\ res.op \in {"all", "filter", "get"}
     /\ ~ExplicitTenant(res.kw))
        => LET mine == Own(db, Ctx) IN
               IF res.op = "all"
               THEN res.rows = Fetch(Mgr_all, mine)
               ELSE IF res.op = "filter"
               THEN res.rows = Fetch(QS_filter(Mgr_get_queryset, res.kw, Ctx), mine)
               ELSE LET found == QS_get(Mgr_get_queryset, res.kw, Ctx, mine) IN
                        /\ res.status = GetStatus(found)
                        /\ res.status = "ok" => res.rows = found

\* C20: under context T, Project.objects.get(**kw) without a tenant in kw
\* returns the row when exactly one row of T matches kw, raises DoesNotExist
\* when none does, and raises MultipleObjectsReturned exactly when more than
\* one row of T matches; matching rows of other tenants do not count.
C20_GetCountsOwnRowsOnly ==
    (/\ res.op = "get"
     /\ res.via = "manager"
     /\ Ctx \in Tenants
     /\ ~ExplicitTenant(res.kw))
        => LET m == {r \in db : r.tenant = Ctx /\ Pred(r, res.kw)} IN
               /\ Cardinality(m) = 1 => (res.status = "ok" /\ res.rows = m)
               /\ m = {} => res.status = "DoesNotExist"
               /\ res.status = "MultipleObjectsReturned" <=> Cardinality(m) > 1

C20_Witness ==
    /\ res.op = "get"
    /\ res.via = "manager"
    /\ res.status = "ok"
    /\ res.kw.name = "a"
    /\ Ctx = "t1"
    /\ \E r \in db : r.tenant = "t2" /\ r.name = "a"
    /\ \E r \in res.rows : r.tenant = "t1" /\ r.name = "a"

\* C21: obj.save() on a new instance without tenant stores it with tenant T
\* when the context is T; with no context the hook leaves the tenant unset;
\* an instance that carries a tenant, new or saved before, is stored with
\* that tenant and never with the current one in its place.
C21_SaveBindsNewInstance ==
    (res.op = "save" /\ res.via = "instance")
        => \A o \in res.inst :
              IF o.tenant = None
              THEN IF o.pk = NoId /\ Ctx \in Tenants
                   THEN /\ res.status = "ok"
                        /\ \A r \in res.rows : r.tenant = Ctx
                   ELSE res.status = "IntegrityError" /\ res.rows = {}
              ELSE /\ res.status = "ok"
                   /\ \A r \in res.rows : r.tenant = o.tenant

\* C22: under context T, update(**kw) with kw naming no tenant, or delete(),
\* on the manager or on a queryset with tenant filtering on, raises nothing
\* and acts on exactly the rows of the receiver whose tenant is T: those are
\* changed or removed, every other stored row stays as it is.
C22_BulkWriteActsOnOwnRows ==
    [][(/\ res = Idle
        /\ res'.op \in {"update", "delete"}
        /\ Ctx \in Tenants
        /\ ~ExplicitTenant(res'.kw)
        /\ \A q \in (IF res'.via = "queryset" THEN qs ELSE {Mgr_get_queryset}) :
               ~q.disabled)
          => \A q \in (IF res'.via = "queryset" THEN qs ELSE {Mgr_get_queryset}) :
                LET target == {r \in Rows(q, db) : r.tenant = Ctx} IN
                    /\ res'.status = "ok"
                    /\ IF res'.op = "delete"
                       THEN db' = db \ target
                       ELSE db' = (db \ target)
                                \cup {[r EXCEPT !.name = IF res'.kw.name # Absent
                                                         THEN res'.kw.name ELSE @]
                                          : r \in target}]_vars

\* C23: whatever requests of users of different tenants the project and
\* task views handle, and however the requests interleave, every stored task
\* has the tenant of the project it references.
C23_TaskTenantIsProjectTenant ==
    \A t \in tasks : \A p \in db : p.id = t.project => p.tenant = t.tenant

C23_Witness ==
    /\ \E t \in tasks : \E p \in db : p.id = t.project /\ p.tenant = "t1"
    /\ \E t \in tasks : \E p \in db : p.id = t.project /\ p.tenant = "t2"
    /\ \E th \in Workers : pc[th] = "body" /\ req[th].user = "u1"
    /\ \E th \in Workers : pc[th] = "body" /\ req[th].user = "u2"

\* C24: right after process_request, get_current_tenant() on the request's
\* thread is the tenant of the authenticated user, and None for an anonymous
\* user or a user without tenant, whatever earlier work left in the thread's
\* slot; request.tenant holds the same value.
C24_RequestStartBindsActor ==
    \A th \in Workers :
        pc[th] = "view"
            => LET t == IF is_authenticated(req[th].user)
                        THEN user_tenant(req[th].user) ELSE None IN
                   /\ get_current_tenant(thread_locals, th) = t
                   /\ req[th].tenant = t

C24_Witness ==
    /\ pc["w1"] = "view"
    /\ req["w1"].user = "u0"
    /\ req["w1"].tenant = None
    /\ get_current_tenant(thread_locals, "w1") = None
    /\ pc["w2"] = "idle"
    /\ get_current_tenant(thread_locals, "w2") = "t1"

====
